---- MODULE Spec2Model ----
(***************************************************************************)
(* SiteManager: the inventory engine (data_processor.InventoryAnalyzer)    *)
(* and the engine cache of the web layer (app.get_analyzer / upload_file). *)
(*                                                                         *)
(* Numbers.  Quantities are integers counting thousandths of a unit        *)
(* (50.0 is 50000, 0.004 is 4); amounts are integers in whole currency     *)
(* units.  Statistics and thresholds derived from them are exact rationals *)
(* [n, d] with d > 0.  Values rounded by round(x, 2) are integers counting *)
(* hundredths.  Floating point rounding error is outside the model.        *)
(* A missing cell (NaN / NaT) of a numeric or date column is the empty     *)
(* sequence << >> and a present value v is << v >>; a missing cell of a    *)
(* text column is the marker NaN.                                          *)
(***************************************************************************)
EXTENDS Integers, Sequences, FiniteSets, TLC

VARIABLES
    source,        \* the table in the source file: [columns, rows]
    df,            \* InventoryAnalyzer.df: the ledger rows read from the file
    df_columns,    \* the columns of InventoryAnalyzer.df
    pc,            \* "new" before __init__ has run process_data, "built" after,
                   \* "failed" when __init__ raised and there is no engine
    inventory_df,  \* InventoryAnalyzer.inventory_df: [columns, rows]
    median_qty,    \* InventoryAnalyzer.median_qty (rational)
    mean_qty,      \* InventoryAnalyzer.mean_qty (rational)
    std_qty,       \* InventoryAnalyzer.std_qty (symbolic, see Std)
    result,        \* what the last query call returned or raised
    analyzer,      \* app.analyzer: the cached engine, or None
    EXCEL_FILE,    \* app.EXCEL_FILE: path of the active source file
    files,         \* the file system: path -> content, or Absent
    nextId,        \* identity given to the next InventoryAnalyzer instance
    response,      \* what the last HTTP request answered
    hist           \* history: the last upload that saved a file, and the
                   \* queries asked since

engineVars == <<source, df, df_columns, pc, inventory_df, median_qty, mean_qty, std_qty, result>>
appVars == <<analyzer, EXCEL_FILE, files, nextId, response, hist>>
vars == <<source, df, df_columns, pc, inventory_df, median_qty, mean_qty, std_qty, result,
          analyzer, EXCEL_FILE, files, nextId, response, hist>>

(***************************************************************************)
(* Bounds                                                                  *)
(***************************************************************************)
MaxTx == 3        \* longest ledger explored
MaxEngines == 3   \* most engines get_analyzer constructs in one run
MaxTxPartial == 1 \* longest ledger explored for a table that lacks a column

(***************************************************************************)
(* Generic helpers                                                         *)
(***************************************************************************)
NaN == "<NaN>"
NA == << >>
Some(v) == << v >>
notna(x) == x # NA
Abs(x) == IF x < 0 THEN -x ELSE x
Min(a, b) == IF a <= b THEN a ELSE b

Rat(n, d) == [n |-> n, d |-> d]
RInt(x) == Rat(x, 1)
RLt(a, b) == a.n * b.d < b.n * a.d
RLe(a, b) == a.n * b.d <= b.n * a.d
REq(a, b) == a.n * b.d = b.n * a.d
RNeg(a) == Rat(-a.n, a.d)
RAbs(a) == Rat(Abs(a.n), a.d)
RSub(a, b) == Rat(a.n * b.d - b.n * a.d, a.d * b.d)
RScale(a, k) == Rat(a.n * k, a.d)
RMin(a, b) == IF RLe(a, b) THEN a ELSE b
RZero == Rat(0, 1)

\* Nearest integer to n/d (d > 0), ties to the even neighbour: what
\* round(x, 2) does to an exact tie after scaling.
RoundHalfEven(n, d) ==
    LET f == n \div d
        r == n - f * d
    IN  IF 2 * r < d THEN f
        ELSE IF 2 * r > d THEN f + 1
        ELSE IF f % 2 = 0 THEN f ELSE f + 1

\* round(q, 2) of a quantity q given in thousandths: result in hundredths.
Round2Qty(q) == RoundHalfEven(q.n, q.d * 10)

\* round(v, 2) of an amount v given in currency units: result in hundredths.
Round2Amt(v) ==
    LET w == v.n \div v.d
        r == v.n - w * v.d
    IN  w * 100 + RoundHalfEven(r * 100, v.d)

RECURSIVE SumSeq(_)
SumSeq(s) == IF s = << >> THEN 0 ELSE Head(s) + SumSeq(Tail(s))

Map(s, F(_)) == IF s = << >> THEN << >> ELSE [i \in 1..Len(s) |-> F(s[i])]

\* Stable sort under the strict weak order Lt: elements that compare equal
\* keep their order.  pandas' sort_values and Python's sorted both behave so
\* on the short tables explored here (numpy sorts fewer than 17 elements by
\* insertion).  Element i goes to the place after everything smaller and
\* after the equal elements that precede it.
SortBy(s, Lt(_, _)) ==
    LET n == Len(s)
        place(i) == 1 + Cardinality({j \in 1..n : Lt(s[j], s[i])})
                      + Cardinality({j \in 1..(i - 1) :
                                       ~Lt(s[j], s[i]) /\ ~Lt(s[i], s[j])})
    IN  IF n = 0 THEN << >>
        ELSE [k \in 1..n |-> s[CHOOSE i \in 1..n : place(i) = k]]

Ret(v) == [exc |-> "none", value |-> v]
Raise(e) == [exc |-> e, value |-> << >>]
NoCall == [op |-> "none", arg |-> << >>, exc |-> "none", value |-> << >>]
Call(op, arg, r) == [op |-> op, arg |-> arg, exc |-> r.exc, value |-> r.value]
(***************************************************************************)
(* The ledger: rows of the source table as pd.read_excel delivers them     *)
(***************************************************************************)
Tx(plant, sloc, material, desc, qty, amt, unit, posted) ==
    [Plant |-> plant, StorageLocation |-> sloc, Material |-> material,
     MaterialDescription |-> desc, Quantity |-> qty, Amt |-> amt,
     UnitOfEntry |-> unit, PostingDate |-> posted,
     MovementType |-> "101", Text |-> IF posted = NA THEN NaN ELSE "GR"]

\* The rows a ledger is drawn from.  Posting dates are day numbers.
TxPool ==
    { Tx("A", "L1", "M", "widget", Some(50000), Some(500), "EA", Some(10)),
      Tx("A", "L1", "M", "widget", Some(-70000), Some(-700), "EA", Some(20)),
      Tx("B", "L1", "M", "widget", Some(-20000), Some(-300), NaN, NA),
      Tx("B", "L2", "M", "widget", Some(-4), Some(-1), "KG", Some(20)),
      Tx("A", "L1", "N", "bolt", Some(-30000), Some(-60), "EA", Some(5)),
      Tx(NaN, NaN, "M", "widget v2", NA, Some(500), "EA", NA) }

RECURSIVE SeqsUpTo(_, _)
SeqsUpTo(S, n) ==
    IF n = 0 THEN { << >> }
    ELSE LET shorter == SeqsUpTo(S, n - 1)
         IN  shorter \cup { Append(s, x) : s \in shorter, x \in S }

Ledgers == SeqsUpTo(TxPool, MaxTx)

\* The columns the engine reads, and the tables explored: complete ones, and
\* short ones that lack exactly one of the columns.
RequiredColumns ==
    {"Plant", "Storage Location", "Material", "Material Description",
     "Quantity", "Amt.in Loc.Cur.", "Unit of Entry", "Movement Type",
     "Document Date", "Posting Date", "Text"}
PartialLedgers == SeqsUpTo(TxPool, MaxTxPartial)
Tables ==
    { [columns |-> RequiredColumns, rows |-> l] : l \in Ledgers }
        \cup { [columns |-> RequiredColumns \ {c}, rows |-> l] :
                   c \in RequiredColumns, l \in PartialLedgers }

(***************************************************************************)
(* InventoryAnalyzer.__init__                                              *)
(***************************************************************************)
\* Series.astype(str) on one cell: a missing cell becomes the text 'nan'.
AsTypeStr(v) == IF v = NaN THEN "nan" ELSE v

\* __init__: the three key columns are converted to strings.
NormalizeRow(row) ==
    [row EXCEPT !.Material = AsTypeStr(row.Material),
                !.Plant = AsTypeStr(row.Plant),
                !.StorageLocation = AsTypeStr(row.StorageLocation)]

(***************************************************************************)
(* InventoryAnalyzer.process_data                                          *)
(***************************************************************************)
\* The key a row is aggregated under.  pd.notna is true of every string.
RowKey(row) ==
    << IF row.Plant # NaN THEN row.Plant ELSE "Unknown",
       IF row.StorageLocation # NaN THEN row.StorageLocation ELSE "N/A",
       row.Material,
       AsTypeStr(row.MaterialDescription) >>

RowQuantity(row) == IF notna(row.Quantity) THEN row.Quantity[1] ELSE 0
RowValue(row) == IF notna(row.Amt) THEN row.Amt[1] ELSE 0

\* inventory = defaultdict(...): a sequence of [key, qty, value, last_active]
\* in insertion order; last_active NA stands for pd.Timestamp.min.
NewEntry(key) == [key |-> key, qty |-> 0, value |-> 0, last_active |-> NA]

IndexOfKey(inv, key) ==
    IF \E i \in 1..Len(inv) : inv[i].key = key
    THEN CHOOSE i \in 1..Len(inv) : inv[i].key = key
    ELSE 0

\* A variant of Accumulate that stores the row's figures instead of adding
\* them to the running totals.
AccumulateOverwrite(inv, row) ==
    LET key == RowKey(row)
        inv1 == IF IndexOfKey(inv, key) = 0 THEN Append(inv, NewEntry(key)) ELSE inv
        i == IndexOfKey(inv1, key)
    IN  [inv1 EXCEPT ![i] =
            [key |-> key, qty |-> RowQuantity(row), value |-> RowValue(row),
             last_active |-> row.PostingDate]]

\* One iteration of the loop over self.df.iterrows().
Accumulate(inv, row) ==
    LET key == RowKey(row)
        inv1 == IF IndexOfKey(inv, key) = 0 THEN Append(inv, NewEntry(key)) ELSE inv
        i == IndexOfKey(inv1, key)
        e == inv1[i]
        newer == /\ notna(row.PostingDate)
                 /\ (e.last_active = NA \/ row.PostingDate[1] > e.last_active[1])
    IN  [inv1 EXCEPT ![i] =
            [key |-> key,
             qty |-> e.qty + RowQuantity(row),
             value |-> e.value + RowValue(row),
             last_active |-> IF newer THEN row.PostingDate ELSE e.last_active]]

RECURSIVE Aggregate(_, _)
Aggregate(inv, rows) ==
    IF rows = << >> THEN inv
    ELSE Aggregate(Accumulate(inv, Head(rows)), Tail(rows))

\* _get_unit: the unit of the first ledger row of the material, 'EA' if the
\* cell is missing or there is no such row.
GetUnit(rows, material) ==
    LET hits == SelectSeq(rows, LAMBDA r : r.Material = material)
    IN  IF Len(hits) > 0
        THEN (IF hits[1].UnitOfEntry # NaN THEN hits[1].UnitOfEntry ELSE "EA")
        ELSE "EA"

PositionColumns == {"Site", "Storage Location", "Material", "Material Description",
                    "Current Quantity", "Total Value", "Last Active", "Unit"}

Position(rows, e) ==
    [Site |-> e.key[1], StorageLocation |-> e.key[2], Material |-> e.key[3],
     MaterialDescription |-> e.key[4], CurrentQuantity |-> e.qty,
     TotalValue |-> e.value, LastActive |-> e.last_active,
     Unit |-> GetUnit(rows, e.key[3])]

\* A variant of the accumulator that is not created anew by process_data
\* but carries over the positions of the table built before.
CarriedInventory ==
    Map(inventory_df.rows, LAMBDA r :
        [key |-> << r.Site, r.StorageLocation, r.Material, r.MaterialDescription >>,
         qty |-> r.CurrentQuantity, value |-> r.TotalValue,
         last_active |-> r.LastActive])

\* inventory = defaultdict(...): created empty by every process_data.
FreshInventory == << >>

\* pd.DataFrame(inventory_list): a list of no records makes a frame with no
\* columns at all.
BuildInventory(rows) ==
    LET inv == Aggregate(FreshInventory, rows)
    IN  [columns |-> IF inv = << >> THEN {} ELSE PositionColumns,
         rows |-> Map(inv, LAMBDA e : Position(rows, e))]
(***************************************************************************)
(* InventoryAnalyzer._calculate_statistics                                 *)
(***************************************************************************)
Qty(r) == r.CurrentQuantity
IntLt(a, b) == a < b
IntGt(a, b) == a > b

\* Series.median(): the middle order statistic, or the mean of the two
\* middle ones.
Median(xs) ==
    LET n == Len(xs)
        sorted == SortBy(xs, IntLt)
    IN  IF n % 2 = 1 THEN RInt(sorted[(n + 1) \div 2])
        ELSE Rat(sorted[n \div 2] + sorted[n \div 2 + 1], 2)

\* Series.mean().
Mean(xs) == Rat(SumSeq(xs), Len(xs))

\* Series.std() (sample standard deviation): a square root, kept symbolic as
\* the sorted values it is taken of; NaN for a single value.
Std(xs) ==
    IF Len(xs) = 1 THEN [kind |-> "nan", of |-> << >>]
    ELSE [kind |-> "std", of |-> SortBy(xs, IntLt)]

StdZero == [kind |-> "zero", of |-> << >>]

AbsQuantities(inv) == Map(inv.rows, LAMBDA r : Abs(Qty(r)))

CalcMedian(inv) == IF Len(inv.rows) = 0 THEN RZero ELSE Median(AbsQuantities(inv))
CalcMean(inv) == IF Len(inv.rows) = 0 THEN RZero ELSE Mean(AbsQuantities(inv))
CalcStd(inv) == IF Len(inv.rows) = 0 THEN StdZero ELSE Std(AbsQuantities(inv))

(***************************************************************************)
(* Column access and quantiles                                             *)
(***************************************************************************)
\* self.inventory_df[c] raises KeyError when the frame has no column c.
HasColumns(cs) == cs \subseteq inventory_df.columns

\* Series.quantile(p / 100) with linear interpolation between the order
\* statistics, of a non-empty series, 0 <= p <= 100.
Quantile(xs, p) ==
    LET n == Len(xs)
        sorted == SortBy(xs, IntLt)
        h == (n - 1) * p
        lo == h \div 100 + 1
        hi == Min(lo + 1, n)
        fr == h % 100
    IN  Rat(100 * sorted[lo] + fr * (sorted[hi] - sorted[lo]), 100)

ValidPercentile(p) == 0 <= p /\ p <= 100

QtyAsc(a, b) == Qty(a) < Qty(b)
QtyDesc(a, b) == Qty(a) > Qty(b)

(***************************************************************************)
(* InventoryAnalyzer.get_shortage_items                                    *)
(***************************************************************************)
\* A variant of ShortageLevel with the two inner labels exchanged.
ShortageLevelSwapped(q) ==
    IF RLe(RInt(q), RNeg(mean_qty)) THEN "Critical"
    ELSE IF RLe(RInt(q), RNeg(median_qty)) THEN "Moderate"
    ELSE "High"

\* pd.cut(q, bins=[-inf, -mean, -median, 0], labels=[Critical, High,
\* Moderate]): the bins are closed on the right.
ShortageLevel(q) ==
    IF RLe(RInt(q), RNeg(mean_qty)) THEN "Critical"
    ELSE IF RLe(RInt(q), RNeg(median_qty)) THEN "High"
    ELSE IF q <= 0 THEN "Moderate"
    ELSE "High"   \* outside every bin: NaN, filled with 'High'

\* pd.cut raises ValueError unless the bin edges strictly increase.
ShortageBinsValid ==
    /\ RLt(RNeg(mean_qty), RNeg(median_qty))
    /\ RLt(RNeg(median_qty), RZero)

ShortageSelection(threshold_percentile) ==
    IF threshold_percentile = NA
    THEN SelectSeq(inventory_df.rows, LAMBDA r : Qty(r) < 0)
    ELSE LET threshold == Quantile(Map(inventory_df.rows, Qty), threshold_percentile[1])
         IN  SelectSeq(inventory_df.rows,
                       LAMBDA r : RLt(RInt(Qty(r)), threshold) /\ Qty(r) < 0)

get_shortage_items(threshold_percentile) ==
    IF ~HasColumns({"Current Quantity"}) THEN Raise("KeyError")
    ELSE IF threshold_percentile # NA /\ ~ValidPercentile(threshold_percentile[1])
    THEN Raise("ValueError")
    ELSE LET shortages == SortBy(ShortageSelection(threshold_percentile), QtyAsc)
         IN  IF Len(shortages) > 0
             THEN IF ShortageBinsValid
                  THEN Ret(Map(shortages,
                               LAMBDA r : r @@ ("ShortageLevel" :> ShortageLevel(Qty(r)))))
                  ELSE Raise("ValueError")
             ELSE Ret(<< >>)

(***************************************************************************)
(* InventoryAnalyzer.get_critical_items                                    *)
(***************************************************************************)
CriticalThreshold(threshold_multiplier) ==
    RScale(RNeg(RAbs(mean_qty)), threshold_multiplier)

get_critical_items(threshold_multiplier) ==
    IF ~HasColumns({"Current Quantity"}) THEN Raise("KeyError")
    ELSE Ret(SortBy(SelectSeq(inventory_df.rows,
                              LAMBDA r : RLe(RInt(Qty(r)),
                                             CriticalThreshold(threshold_multiplier))),
                    QtyAsc))

(***************************************************************************)
(* InventoryAnalyzer.get_abundant_items                                    *)
(* The 'Abundance Level' column added to the selected rows is left out: it *)
(* is computed inside try/except, cannot raise, and changes neither the    *)
(* selection nor the order.                                                *)
(***************************************************************************)
\* A variant of AbundantSelection that keeps a position equal to the
\* threshold.
AbundantSelectionInclusive(threshold) ==
    SelectSeq(inventory_df.rows, LAMBDA r : RLe(threshold, RInt(Qty(r))))

AbundantSelection(threshold) ==
    SelectSeq(inventory_df.rows, LAMBDA r : RLt(threshold, RInt(Qty(r))))

get_abundant_items(threshold_percentile) ==
    IF ~HasColumns({"Current Quantity"}) THEN Raise("KeyError")
    ELSE IF ~ValidPercentile(threshold_percentile) THEN Raise("ValueError")
    ELSE LET threshold == Quantile(Map(inventory_df.rows, Qty), threshold_percentile)
         IN  Ret(SortBy(AbundantSelection(threshold), QtyDesc))
(***************************************************************************)
(* get_shipping_recommendations / get_movement_recommendations             *)
(***************************************************************************)
RECURSIVE Flatten(_)
Flatten(ss) == IF ss = << >> THEN << >> ELSE Head(ss) \o Flatten(Tail(ss))

\* The distinct values of a sequence in order of first appearance: the key
\* order of a dict filled by iterating the sequence.
RECURSIVE DistinctInOrder(_)
DistinctInOrder(xs) ==
    IF xs = << >> THEN << >>
    ELSE LET init == DistinctInOrder(SubSeq(xs, 1, Len(xs) - 1))
             x == xs[Len(xs)]
         IN  IF \E i \in 1..Len(init) : init[i] = x THEN init ELSE Append(init, x)

\* material_sites: for every material, its positions in table order.
MaterialsInOrder == DistinctInOrder(Map(inventory_df.rows, LAMBDA r : r.Material))
SitesData(material) == SelectSeq(inventory_df.rows, LAMBDA r : r.Material = material)

SurplusSites(sites_data) ==
    SelectSeq(sites_data, LAMBDA r : RLt(median_qty, RInt(Qty(r))))
ShortageSites(sites_data) == SelectSeq(sites_data, LAMBDA r : Qty(r) < 0)

\* A variant of TransferQty that forgets the size of the shortage.
TransferQtySurplusOnly(surplus, shortage) ==
    RAbs(RSub(RInt(Qty(surplus)), median_qty))

\* min(abs(surplus - median), abs(shortage)), in thousandths.
TransferQty(surplus, shortage) ==
    RMin(RAbs(RSub(RInt(Qty(surplus)), median_qty)), RInt(Abs(Qty(shortage))))

\* The records the nested loops append, in loop order; MakeRec builds one.
PairRecords(material, MakeRec(_, _, _)) ==
    LET sites_data == SitesData(material)
        surplus_sites == SurplusSites(sites_data)
        shortage_sites == ShortageSites(sites_data)
        forSurplus(su) ==
            Flatten(Map(shortage_sites,
                        LAMBDA sh : IF RLt(RZero, TransferQty(su, sh))
                                    THEN << MakeRec(material, su, sh) >>
                                    ELSE << >>))
    IN  IF Len(sites_data) < 2 THEN << >>
        ELSE Flatten(Map(surplus_sites, forSurplus))

AllRecords(MakeRec(_, _, _)) ==
    Flatten(Map(MaterialsInOrder, LAMBDA m : PairRecords(m, MakeRec)))

BoolRank(b) == IF b THEN 1 ELSE 0

ShippingRec(material, surplus, shortage) ==
    [Material |-> material,
     MaterialDescription |-> surplus.MaterialDescription,
     FromSite |-> surplus.Site,
     ToSite |-> shortage.Site,
     RecommendedQuantity |-> Round2Qty(TransferQty(surplus, shortage)),
     Priority |-> IF RLt(RInt(Qty(shortage)), RNeg(mean_qty)) THEN "High" ELSE "Medium"]

\* sorted(key = (Priority == 'High', -Recommended Quantity), reverse = True):
\* a comes before b when its key is the greater one.
ShippingBefore(a, b) ==
    LET ka == BoolRank(a.Priority = "High")
        kb == BoolRank(b.Priority = "High")
    IN  \/ ka > kb
        \/ ka = kb /\ -a.RecommendedQuantity > -b.RecommendedQuantity

get_shipping_recommendations == Ret(SortBy(AllRecords(ShippingRec), ShippingBefore))

\* unit_value = abs(Value) / abs(Quantity), in currency units per thousandth.
UnitValue(surplus) ==
    IF Qty(surplus) # 0 THEN Rat(Abs(surplus.TotalValue), Abs(Qty(surplus))) ELSE RZero

\* transfer_value = transfer_qty * unit_value, in currency units.
TransferValue(surplus, shortage) ==
    LET t == TransferQty(surplus, shortage)
        u == UnitValue(surplus)
    IN  Rat(t.n * u.n, t.d * u.d)

\* urgency_score = abs(shortage) / abs(mean) if mean != 0 else 0, bucketed
\* into Critical (> 2), High (> 1), Medium.
Urgency(shortage) ==
    LET m == RAbs(mean_qty)
        d == RInt(Abs(Qty(shortage)))
    IN  IF mean_qty.n = 0 THEN "Medium"
        ELSE IF RLt(RScale(m, 2), d) THEN "Critical"
        ELSE IF RLt(m, d) THEN "High"
        ELSE "Medium"

\* 'High' if transfer_value > abs(mean * unit_value).  Both sides carry the
\* factor unit_value >= 0, so the test is unit_value > 0 and
\* transfer_qty > abs(mean).
Impact(surplus, shortage) ==
    IF UnitValue(surplus).n # 0 /\ RLt(RAbs(mean_qty), TransferQty(surplus, shortage))
    THEN "High" ELSE "Medium"

MovementRec(material, surplus, shortage) ==
    [Material |-> material,
     MaterialDescription |-> surplus.MaterialDescription,
     FromSite |-> surplus.Site,
     FromStorageLocation |-> surplus.StorageLocation,
     ToSite |-> shortage.Site,
     ToStorageLocation |-> shortage.StorageLocation,
     AvailableQty |-> Round2Qty(RInt(Qty(surplus))),
     RequiredQty |-> Round2Qty(RInt(Abs(Qty(shortage)))),
     RecommendedQuantity |-> Round2Qty(TransferQty(surplus, shortage)),
     EstimatedValue |-> Round2Amt(TransferValue(surplus, shortage)),
     Priority |-> Urgency(shortage),
     Impact |-> Impact(surplus, shortage)]

\* sorted(key = (Priority == 'Critical', Priority == 'High',
\* -Estimated Value), reverse = True).
MovementBefore(a, b) ==
    LET ka == << BoolRank(a.Priority = "Critical"), BoolRank(a.Priority = "High"),
                 -a.EstimatedValue >>
        kb == << BoolRank(b.Priority = "Critical"), BoolRank(b.Priority = "High"),
                 -b.EstimatedValue >>
    IN  \/ ka[1] > kb[1]
        \/ ka[1] = kb[1] /\ ka[2] > kb[2]
        \/ ka[1] = kb[1] /\ ka[2] = kb[2] /\ ka[3] > kb[3]

get_movement_recommendations == Ret(SortBy(AllRecords(MovementRec), MovementBefore))
(***************************************************************************)
(* Grouping helpers (DataFrame.groupby sorts the group keys)               *)
(***************************************************************************)
\* The order of the strings that occur as sites, locations and materials.
StrRank(x) ==
    CASE x = "A" -> 1 [] x = "B" -> 2 [] x = "L1" -> 3 [] x = "L2" -> 4
      [] x = "M" -> 5 [] x = "N" -> 6 [] x = "N/A" -> 7 [] x = "Unknown" -> 8
      [] x = "nan" -> 9 [] OTHER -> 10

StrLt(a, b) == StrRank(a) < StrRank(b)
PairLt(a, b) == StrLt(a[1], b[1]) \/ (a[1] = b[1] /\ StrLt(a[2], b[2]))

Negative == SelectSeq(inventory_df.rows, LAMBDA r : Qty(r) < 0)
SumQty(rows) == SumSeq(Map(rows, Qty))
SumValue(rows) == SumSeq(Map(rows, LAMBDA r : r.TotalValue))
NUnique(xs) == Len(DistinctInOrder(xs))
HeadN(xs, n) == SubSeq(xs, 1, Min(n, Len(xs)))
ImpactAsc(a, b) == a.TotalValueImpact < b.TotalValueImpact
CountDesc(a, b) == a.ShortageCount > b.ShortageCount

SiteKey(r) == r.Site
LocKey(r) == << r.Site, r.StorageLocation >>
MaterialKey(r) == r.Material

(***************************************************************************)
(* InventoryAnalyzer.get_site_summary                                      *)
(***************************************************************************)
get_site_summary ==
    IF ~HasColumns({"Site"}) THEN Raise("KeyError")
    ELSE LET sites == SortBy(DistinctInOrder(Map(inventory_df.rows, SiteKey)), StrLt)
             group(k) == SelectSeq(inventory_df.rows, LAMBDA r : r.Site = k)
         IN  Ret(Map(sites, LAMBDA k :
                 [Site |-> k,
                  TotalQuantity |-> Round2Qty(RInt(SumQty(group(k)))),
                  TotalValue |-> Round2Amt(RInt(SumValue(group(k)))),
                  UniqueMaterials |-> NUnique(Map(group(k), MaterialKey))]))

(***************************************************************************)
(* get_material_analysis / get_site_inventory                              *)
(***************************************************************************)
\* material = NA stands for None (and for the empty string, equally falsy).
get_material_analysis(material) ==
    IF material = NA THEN Ret(inventory_df.rows)
    ELSE IF ~HasColumns({"Material"}) THEN Raise("KeyError")
    ELSE Ret(SelectSeq(inventory_df.rows, LAMBDA r : r.Material = material[1]))

get_site_inventory(site) ==
    IF site = NA THEN Ret(inventory_df.rows)
    ELSE IF ~HasColumns({"Site"}) THEN Raise("KeyError")
    ELSE Ret(SelectSeq(inventory_df.rows, LAMBDA r : r.Site = site[1]))

(***************************************************************************)
(* InventoryAnalyzer.get_material_details                                  *)
(***************************************************************************)
\* sort_values('Posting Date', ascending=False): latest first, rows without
\* a date (NaT) last.
PostingDesc(a, b) ==
    /\ notna(a.PostingDate)
    /\ (b.PostingDate = NA \/ a.PostingDate[1] > b.PostingDate[1])

RecentLimit == 10

\* Reads the retained ledger, not the position table: a breakdown of the
\* material's rows by (Plant, Storage Location) and its latest rows.  Every
\* column it names must be there; the columns of a row are read only when
\* the material has a row.
get_material_details(material) ==
    IF ~({"Material", "Plant", "Storage Location", "Quantity", "Amt.in Loc.Cur.",
          "Posting Date"} \subseteq df_columns)
    THEN Raise("KeyError")
    ELSE LET material_df == SelectSeq(df, LAMBDA r : r.Material = material)
             keyOf(r) == << r.Plant, r.StorageLocation >>
             keys == SortBy(DistinctInOrder(Map(material_df, keyOf)), PairLt)
             group(k) == SelectSeq(material_df, LAMBDA r : keyOf(r) = k)
             recent_tx == HeadN(SortBy(material_df, PostingDesc), RecentLimit)
         IN  IF recent_tx # << >> /\ ~({"Movement Type", "Text"} \subseteq df_columns)
             THEN Raise("KeyError")
             ELSE Ret([locations |-> Map(keys, LAMBDA k :
                           [Site |-> k[1], StorageLocation |-> k[2],
                            Quantity |-> SumSeq(Map(group(k), RowQuantity)),
                            Value |-> SumSeq(Map(group(k), RowValue))]),
                       transactions |-> Map(recent_tx, LAMBDA r :
                           [Date |-> r.PostingDate, Type |-> r.MovementType,
                            Qty |-> r.Quantity, Site |-> r.Plant,
                            Storage |-> r.StorageLocation,
                            Text |-> IF r.Text = NaN THEN "" ELSE r.Text])])

(***************************************************************************)
(* InventoryAnalyzer.get_bottleneck_analysis                               *)
(***************************************************************************)
\* 'Critical' if abs(x) > abs(total value * fraction), fraction = 1/per.
BottleneckPriority(x, per) ==
    IF per * Abs(x) > Abs(SumValue(inventory_df.rows)) THEN "Critical" ELSE "High"

get_bottleneck_analysis ==
    IF ~HasColumns({"Current Quantity"}) THEN Raise("KeyError")
    ELSE LET siteKeys == SortBy(DistinctInOrder(Map(Negative, SiteKey)), StrLt)
             locKeys == SortBy(DistinctInOrder(Map(Negative, LocKey)), PairLt)
             matKeys == SortBy(DistinctInOrder(Map(Negative, MaterialKey)), StrLt)
             bySite(k) == SelectSeq(Negative, LAMBDA r : r.Site = k)
             byLoc(k) == SelectSeq(Negative, LAMBDA r : LocKey(r) = k)
             byMat(k) == SelectSeq(Negative, LAMBDA r : r.Material = k)
             siteRow(k) ==
                 [Site |-> k, TotalShortageQty |-> SumQty(bySite(k)),
                  ItemCount |-> Len(bySite(k)),
                  TotalValueImpact |-> SumValue(bySite(k)),
                  BottleneckType |-> "Site",
                  Priority |-> BottleneckPriority(SumValue(bySite(k)), 10)]
             locRow(k) ==
                 [Site |-> k[1], StorageLocation |-> k[2],
                  TotalShortageQty |-> SumQty(byLoc(k)),
                  ItemCount |-> Len(byLoc(k)),
                  TotalValueImpact |-> SumValue(byLoc(k)),
                  BottleneckType |-> "Storage Location",
                  Priority |-> BottleneckPriority(SumValue(byLoc(k)), 20)]
             matRow(k) ==
                 [Material |-> k, TotalShortageQty |-> SumQty(byMat(k)),
                  TotalValueImpact |-> SumValue(byMat(k)),
                  MaterialDescription |-> byMat(k)[1].MaterialDescription,
                  AffectedSites |-> DistinctInOrder(Map(byMat(k), SiteKey)),
                  BottleneckType |-> "Material",
                  Priority |-> BottleneckPriority(SumValue(byMat(k)), 20)]
         IN  Ret([sites |-> SortBy(Map(siteKeys, siteRow), ImpactAsc),
                  locations |-> SortBy(Map(locKeys, locRow), ImpactAsc),
                  materials |-> SortBy(Map(matKeys, matRow), ImpactAsc)])
(***************************************************************************)
(* InventoryAnalyzer.get_focus_areas                                       *)
(***************************************************************************)
ValueAsc(a, b) == a.TotalValue < b.TotalValue

get_focus_areas ==
    IF ~HasColumns({"Current Quantity", "Total Value"}) THEN Raise("KeyError")
    ELSE LET high_value_shortages ==
                 SortBy(SelectSeq(inventory_df.rows,
                                  LAMBDA r : Qty(r) < 0 /\ r.TotalValue < 0), ValueAsc)
             critical_qty ==
                 SortBy(SelectSeq(inventory_df.rows,
                                  LAMBDA r : RLt(RInt(Qty(r)), RNeg(RAbs(mean_qty)))),
                        QtyAsc)
             siteKeys == SortBy(DistinctInOrder(Map(Negative, SiteKey)), StrLt)
             locKeys == SortBy(DistinctInOrder(Map(Negative, LocKey)), PairLt)
             bySite(k) == SelectSeq(Negative, LAMBDA r : r.Site = k)
             byLoc(k) == SelectSeq(Negative, LAMBDA r : LocKey(r) = k)
             siteRow(k) ==
                 [Site |-> k, ShortageCount |-> Len(bySite(k)),
                  TotalShortageQty |-> SumQty(bySite(k)),
                  TotalValueImpact |-> SumValue(bySite(k)),
                  FocusReason |-> "Multiple Shortages",
                  Action |-> "Site-Level Review Required"]
             locRow(k) ==
                 [Site |-> k[1], StorageLocation |-> k[2],
                  ShortageCount |-> Len(byLoc(k)),
                  TotalShortageQty |-> SumQty(byLoc(k)),
                  TotalValueImpact |-> SumValue(byLoc(k)),
                  FocusReason |-> "Location Issues",
                  Action |-> "Storage Location Audit"]
         IN  Ret([high_value |->
                      HeadN(Map(high_value_shortages, LAMBDA r :
                                r @@ ("FocusReason" :> "High Value Impact")
                                  @@ ("Action" :> "Urgent Replenishment Required")), 20),
                  critical_quantity |->
                      HeadN(Map(critical_qty, LAMBDA r :
                                r @@ ("FocusReason" :> "Critical Quantity Gap")
                                  @@ ("Action" :> "Immediate Stock Transfer")), 20),
                  site_issues |-> SortBy(Map(siteKeys, siteRow), CountDesc),
                  location_issues |-> HeadN(SortBy(Map(locKeys, locRow), CountDesc), 20)])

(***************************************************************************)
(* InventoryAnalyzer.get_top_shortages_by_value                            *)
(***************************************************************************)
get_top_shortages_by_value(limit) ==
    IF ~HasColumns({"Current Quantity"}) THEN Raise("KeyError")
    ELSE IF Negative = << >> THEN Ret(<< >>)
    ELSE Ret(HeadN(SortBy(Map(Negative, LAMBDA r :
                              r @@ ("ValueImpact" :> r.TotalValue)), ValueAsc),
                   limit))

(***************************************************************************)
(* InventoryAnalyzer.get_inactive_stock                                    *)
(***************************************************************************)
\* sort_values('Last Active Date', ascending=True): known dates from the
\* oldest on, unknown dates (NaT) after them.
LastActiveAsc(a, b) ==
    /\ notna(a.LastActive)
    /\ (b.LastActive = NA \/ a.LastActive[1] < b.LastActive[1])

\* today is pd.Timestamp.today() as a day number.
get_inactive_stock(days, limit, today) ==
    IF ~HasColumns({"Last Active"}) THEN Ret(<< >>)
    ELSE LET cutoff == today - days
             inactive == SelectSeq(inventory_df.rows,
                                   LAMBDA r : r.LastActive = NA \/ r.LastActive[1] < cutoff)
         IN  Ret(HeadN(SortBy(inactive, LastActiveAsc), limit))

(***************************************************************************)
(* InventoryAnalyzer.get_dashboard_stats                                   *)
(***************************************************************************)
get_dashboard_stats ==
    IF ~HasColumns({"Site", "Material", "Current Quantity", "Total Value"})
    THEN Raise("KeyError")
    ELSE Ret([total_items |-> Len(inventory_df.rows),
              total_sites |-> NUnique(Map(inventory_df.rows, SiteKey)),
              total_materials |-> NUnique(Map(inventory_df.rows, MaterialKey)),
              negative_items |-> Len(SelectSeq(inventory_df.rows, LAMBDA r : Qty(r) < 0)),
              positive_items |-> Len(SelectSeq(inventory_df.rows, LAMBDA r : Qty(r) > 0)),
              total_quantity |-> Round2Qty(RInt(SumQty(inventory_df.rows))),
              total_value |-> Round2Amt(RInt(SumValue(inventory_df.rows))),
              avg_quantity |-> Round2Qty(mean_qty),
              median_quantity |-> Round2Qty(median_qty)])
(***************************************************************************)
(* The engine as a state machine: construction, then any queries           *)
(***************************************************************************)
NoEngine == [id |-> 0, src |-> << >>, content |-> ""]
NoResponse == [route |-> "none", status |-> 0, error |-> "none", engine |-> NoEngine]
NoUpload == [upload |-> "none", path |-> << >>, content |-> "",
             activeBefore |-> << >>, activeContent |-> "", idsBefore |-> 1,
             asked |-> FALSE, firstId |-> 0]

Absent == "absent"
DefaultFile == "Data Jul-Nov 2025.xlsx"
UploadNames == {"a.xlsx", "b.xlsx"}
UploadPath(filename) == << "uploads", filename >>
UploadPaths == { UploadPath(f) : f \in UploadNames }
Paths == { << DefaultFile >> } \cup UploadPaths
GoodContents == {"v1", "v2"}

\* The web layer at rest, while the engine is studied on its own.
AppIdle ==
    /\ analyzer = NoEngine
    /\ EXCEL_FILE = << DefaultFile >>
    /\ files = [q \in Paths |-> Absent]
    /\ nextId = 1
    /\ response = NoResponse
    /\ hist = NoUpload

Init ==
    /\ source \in Tables
    /\ df = << >>
    /\ df_columns = {}
    /\ pc = "new"
    /\ inventory_df = [columns |-> {}, rows |-> << >>]
    /\ median_qty = RZero
    /\ mean_qty = RZero
    /\ std_qty = StdZero
    /\ result = NoCall
    /\ AppIdle

\* Whether InventoryAnalyzer(excel_file) raises KeyError: process_data
\* converts the two date columns first, reads six columns of every row in
\* its loop, and _get_unit reads 'Unit of Entry' for every position.
LoadFails(columns, rows) ==
    \/ ~({"Document Date", "Posting Date"} \subseteq columns)
    \/ /\ rows # << >>
       /\ ~({"Plant", "Storage Location", "Material", "Material Description",
             "Quantity", "Amt.in Loc.Cur.", "Unit of Entry"} \subseteq columns)

\* InventoryAnalyzer(excel_file): __init__ reads the table, normalises the
\* key columns and runs process_data, which ends with _calculate_statistics.
\* When it raises, the caller gets no engine.
Construct ==
    IF LoadFails(source.columns, source.rows)
    THEN /\ pc' = "failed"
         /\ df' = << >>
         /\ df_columns' = {}
         /\ inventory_df' = [columns |-> {}, rows |-> << >>]
         /\ median_qty' = RZero
         /\ mean_qty' = RZero
         /\ std_qty' = StdZero
    ELSE /\ LET rows == Map(source.rows, NormalizeRow)
                inv == BuildInventory(rows)
            IN  /\ df' = rows
                /\ inventory_df' = inv
                /\ median_qty' = CalcMedian(inv)
                /\ mean_qty' = CalcMean(inv)
                /\ std_qty' = CalcStd(inv)
         /\ df_columns' = source.columns
         /\ pc' = "built"

\* The first construction from the source.
Build ==
    /\ pc = "new"
    /\ Construct
    /\ UNCHANGED <<source, result, appVars>>

\* The engine is constructed again from the same source and takes the place
\* of the one before.
Rebuilt == [op |-> "__init__", arg |-> << >>, exc |-> "none", value |-> << >>]
Rebuild ==
    /\ pc # "new"
    /\ Construct
    /\ result' = Rebuilt
    /\ UNCHANGED <<source, appVars>>

Percentiles == {0, 90, 100, 150}
Multipliers == {-1, 1, 2}
Limits == {1, 20}
DayWindows == {0, 90}
Todays == {100}
SiteArgs == {NA, Some("A")}
MaterialArgs == {NA, Some("M")}
DetailArgs == {"M", "N"}

\* A variant of get_inactive_stock that works on the live table instead of
\* a copy of it: the 'Last Active Date' column is added to the table.
TableAfterQueryInPlace(op, table) ==
    IF op = "get_inactive_stock" /\ "Last Active" \in table.columns
    THEN [table EXCEPT !.columns = @ \cup {"Last Active Date"}]
    ELSE table

\* The position table after a query: every query works on a selection, a
\* .copy() or a groupby of the table and hands out fresh records
\* (to_dict('records')), so the table is as it was.
TableAfterQuery(op, table) == table

\* A query call on a built engine.  No query assigns to self.df or to the
\* statistics.
Query(op, arg, r) ==
    /\ pc = "built"
    /\ result' = Call(op, arg, r)
    /\ inventory_df' = TableAfterQuery(op, inventory_df)
    /\ UNCHANGED <<source, df, df_columns, pc, median_qty, mean_qty, std_qty, appVars>>

SiteSummary == Query("get_site_summary", NA, get_site_summary)
ShortageItems ==
    \E tp \in {NA} \cup {Some(p) : p \in Percentiles} :
        Query("get_shortage_items", tp, get_shortage_items(tp))
CriticalItems ==
    \E m \in Multipliers : Query("get_critical_items", Some(m), get_critical_items(m))
AbundantItems ==
    \E p \in Percentiles : Query("get_abundant_items", Some(p), get_abundant_items(p))
ShippingRecommendations ==
    Query("get_shipping_recommendations", NA, get_shipping_recommendations)
MovementRecommendations ==
    Query("get_movement_recommendations", NA, get_movement_recommendations)
MaterialAnalysis ==
    \E m \in MaterialArgs : Query("get_material_analysis", m, get_material_analysis(m))
SiteInventory ==
    \E site \in SiteArgs : Query("get_site_inventory", site, get_site_inventory(site))
MaterialDetails ==
    \E m \in DetailArgs : Query("get_material_details", Some(m), get_material_details(m))
BottleneckAnalysis == Query("get_bottleneck_analysis", NA, get_bottleneck_analysis)
FocusAreas == Query("get_focus_areas", NA, get_focus_areas)
TopShortagesByValue ==
    \E limit \in Limits :
        Query("get_top_shortages_by_value", Some(limit), get_top_shortages_by_value(limit))
InactiveStock ==
    \E days \in DayWindows, limit \in Limits, today \in Todays :
        Query("get_inactive_stock", << days, limit, today >>,
              get_inactive_stock(days, limit, today))
DashboardStats == Query("get_dashboard_stats", NA, get_dashboard_stats)

Next ==
    \/ Build
    \/ Rebuild
    \/ SiteSummary
    \/ ShortageItems
    \/ CriticalItems
    \/ AbundantItems
    \/ ShippingRecommendations
    \/ MovementRecommendations
    \/ MaterialAnalysis
    \/ SiteInventory
    \/ MaterialDetails
    \/ BottleneckAnalysis
    \/ FocusAreas
    \/ TopShortagesByValue
    \/ InactiveStock
    \/ DashboardStats

Spec == Init /\ [][Next]_vars
(***************************************************************************)
(* Properties of the engine                                                *)
(***************************************************************************)
Built == pc = "built"
Returned(op) == Built /\ result.op = op /\ result.exc = "none"
PosKey(r) == << r.Site, r.StorageLocation, r.Material, r.MaterialDescription >>
Rows == inventory_df.rows

RECURSIVE SumOver(_, _)
SumOver(S, f) ==
    IF S = {} THEN 0
    ELSE LET x == CHOOSE y \in S : TRUE IN f[x] + SumOver(S \ {x}, f)

LedgerKeys == { RowKey(df[i]) : i \in 1..Len(df) }
RowsOfKey(k) == { i \in 1..Len(df) : RowKey(df[i]) = k }
LedgerQuantity == [i \in 1..Len(df) |-> IF df[i].Quantity = NA THEN 0 ELSE df[i].Quantity[1]]
LedgerAmount == [i \in 1..Len(df) |-> IF df[i].Amt = NA THEN 0 ELSE df[i].Amt[1]]

\* C1: after the build, there is exactly one position per distinct key
\* (site, storage location, material, description) of the ledger and none for
\* any other key; its Current Quantity is the sum of Quantity and its Total
\* Value the sum of the amounts over exactly the transactions of that key,
\* a missing figure counting as 0.  Every transaction so counts in exactly
\* one position.
C1_AggregationExact ==
    Built =>
        /\ \A k \in LedgerKeys :
               Cardinality({ i \in 1..Len(Rows) : PosKey(Rows[i]) = k }) = 1
        /\ \A i \in 1..Len(Rows) :
               /\ PosKey(Rows[i]) \in LedgerKeys
               /\ Rows[i].CurrentQuantity
                      = SumOver(RowsOfKey(PosKey(Rows[i])), LedgerQuantity)
               /\ Rows[i].TotalValue
                      = SumOver(RowsOfKey(PosKey(Rows[i])), LedgerAmount)

\* C1 witness: a built table of two positions, one of them the sum of two
\* transactions with a non-zero total.
C1_Witness ==
    /\ Built
    /\ Len(Rows) = 2
    /\ \E i \in 1..Len(Rows) :
           /\ Cardinality(RowsOfKey(PosKey(Rows[i]))) = 2
           /\ Rows[i].CurrentQuantity = -20000
           /\ Rows[i].TotalValue = -200

ShortageCall == Built /\ result.op = "get_shortage_items" /\ result.arg = NA
IsNegativePosition(r) == \E i \in 1..Len(Rows) : Rows[i] = r /\ Rows[i].CurrentQuantity < 0
Stripped(r) == [f \in DOMAIN r \ {"ShortageLevel"} |-> r[f]]

\* C2: get_shortage_items called without a percentile does not raise and
\* returns exactly the positions of negative quantity, each once, in ascending
\* order of quantity; a ledger of the two transactions (+50, +500) and
\* (-70, -700) on one key gives one position of quantity -20 and value -200,
\* which is in the result.
C2_ShortageAllNegative ==
    ShortageCall =>
        /\ result.exc = "none"
        /\ Len(result.value) = Cardinality({ i \in 1..Len(Rows) : Rows[i].CurrentQuantity < 0 })
        /\ \A i \in 1..Len(Rows) :
               Rows[i].CurrentQuantity < 0 =>
                   \E j \in 1..Len(result.value) : Stripped(result.value[j]) = Rows[i]
        /\ \A j \in 1..(Len(result.value) - 1) :
               result.value[j].CurrentQuantity <= result.value[j + 1].CurrentQuantity
        /\ (Len(df) = 2 /\ { LedgerQuantity[1], LedgerQuantity[2] } = { 50000, -70000 }
                /\ RowKey(df[1]) = RowKey(df[2]))
               => \E j \in 1..Len(result.value) :
                      /\ result.value[j].CurrentQuantity = -20000
                      /\ result.value[j].TotalValue = -200

IsEmptyValue(v) ==
    \/ v = << >>
    \/ /\ DOMAIN v = {"sites", "locations", "materials"}
       /\ \A f \in DOMAIN v : v[f] = << >>
    \/ /\ DOMAIN v = {"high_value", "critical_quantity", "site_issues", "location_issues"}
       /\ \A f \in DOMAIN v : v[f] = << >>

\* C3: for an empty ledger the build completes with the three threshold
\* statistics 0, get_dashboard_stats returns all zeros, and every other query
\* returns an empty result; none raises.
C3_EmptyLedgerTotal ==
    (Built /\ df = << >>) =>
        /\ median_qty = RZero /\ mean_qty = RZero /\ std_qty = StdZero
        /\ result.exc = "none"
        /\ result.op = "get_dashboard_stats"
               => \A f \in DOMAIN result.value : result.value[f] = 0
        /\ result.op \notin {"none", "get_dashboard_stats"} => IsEmptyValue(result.value)

Severity(level) == CASE level = "Critical" -> 3 [] level = "High" -> 2 [] OTHER -> 1

\* C4: in a result of get_shortage_items (with or without a percentile), of
\* two returned positions the one of smaller or equal quantity has a Shortage
\* Level at least as severe, in the order Critical > High > Moderate.
C4_SeverityMonotonic ==
    Returned("get_shortage_items") =>
        \A i, j \in 1..Len(result.value) :
            result.value[i].CurrentQuantity <= result.value[j].CurrentQuantity
                => Severity(result.value[i].ShortageLevel)
                       >= Severity(result.value[j].ShortageLevel)

\* C4 witness: a returned shortage list that carries all three levels.
C4_Witness ==
    /\ Returned("get_shortage_items")
    /\ { result.value[i].ShortageLevel : i \in 1..Len(result.value) }
           = {"Critical", "High", "Moderate"}
IsPosition(r) == \E i \in 1..Len(Rows) : Rows[i] = r

\* The k-th smallest of the position quantities, by counting.
OrderStat(k) ==
    CHOOSE v \in { Rows[i].CurrentQuantity : i \in 1..Len(Rows) } :
        /\ Cardinality({ i \in 1..Len(Rows) : Rows[i].CurrentQuantity < v }) < k
        /\ k <= Cardinality({ i \in 1..Len(Rows) : Rows[i].CurrentQuantity <= v })

\* 100 times the p-th percentile of the position quantities (linear
\* interpolation between the order statistics), 0 <= p <= 100.
Percentile100(p) ==
    LET h == (Len(Rows) - 1) * p
        lo == OrderStat(h \div 100 + 1)
        hi == OrderStat(Min(h \div 100 + 2, Len(Rows)))
    IN  100 * lo + (h % 100) * (hi - lo)

\* C5: every item returned by get_shortage_items is a position of quantity
\* < 0, every item returned by get_critical_items(m) a position of quantity
\* <= -(mean * m), every item returned by get_abundant_items(p) a position of
\* quantity above the p-th percentile, and no position is returned by both
\* get_shortage_items and get_abundant_items.
C5_SubsetsAndDisjoint ==
    /\ Returned("get_shortage_items") =>
           \A j \in 1..Len(result.value) :
               /\ IsPosition(Stripped(result.value[j]))
               /\ result.value[j].CurrentQuantity < 0
    /\ Returned("get_critical_items") =>
           \A j \in 1..Len(result.value) :
               /\ IsPosition(result.value[j])
               /\ result.value[j].CurrentQuantity * mean_qty.d
                      <= -(mean_qty.n * result.arg[1])
    /\ Returned("get_abundant_items") =>
           \A j \in 1..Len(result.value) :
               /\ IsPosition(result.value[j])
               /\ 100 * result.value[j].CurrentQuantity > Percentile100(result.arg[1])
               /\ \A tp \in {NA} \cup { Some(p) : p \in Percentiles } :
                      LET s == get_shortage_items(tp)
                      IN  s.exc = "none" =>
                              \A k \in 1..Len(s.value) :
                                  Stripped(s.value[k]) # result.value[j]

Recommended(op) == Returned(op) /\ Len(result.value) > 0

\* C6: every record returned by get_movement_recommendations and by
\* get_shipping_recommendations reports a Recommended Quantity > 0.
C6_PositiveRecommendedQuantity ==
    (Returned("get_movement_recommendations") \/ Returned("get_shipping_recommendations"))
        => \A j \in 1..Len(result.value) : result.value[j].RecommendedQuantity > 0

\* The pairs (surplus position, shortage position) of one material.
MovementPairs ==
    { ij \in (1..Len(Rows)) \X (1..Len(Rows)) :
        /\ Rows[ij[1]].Material = Rows[ij[2]].Material
        /\ Rows[ij[1]].CurrentQuantity * median_qty.d > median_qty.n
        /\ Rows[ij[2]].CurrentQuantity < 0 }

\* min(s - median, |d|) of a pair, in thousandths.
PairMin(ij) ==
    LET a == Rat(Rows[ij[1]].CurrentQuantity * median_qty.d - median_qty.n, median_qty.d)
        b == Rat(-Rows[ij[2]].CurrentQuantity, 1)
    IN  IF a.n * b.d <= b.n * a.d THEN a ELSE b

Route(m, from, to) ==
    << m, from.Site, from.StorageLocation, to.Site, to.StorageLocation >>
PairRoute(ij) == Route(Rows[ij[1]].Material, Rows[ij[1]], Rows[ij[2]])
RecRoute(r) ==
    << r.Material, r.FromSite, r.FromStorageLocation, r.ToSite, r.ToStorageLocation >>

\* The recommendations are, one for one, the pairs: as many records with a
\* given route and quantity as there are pairs with them.  Reported(ij, h)
\* says that the quantity h (hundredths) is the one to report for pair ij.
OnePerPair(Reported(_, _)) ==
    /\ Len(result.value) = Cardinality(MovementPairs)
    /\ \A ij \in MovementPairs :
           \E h \in { result.value[k].RecommendedQuantity : k \in 1..Len(result.value) } :
               /\ Reported(ij, h)
               /\ Cardinality({ k \in 1..Len(result.value) :
                                  /\ RecRoute(result.value[k]) = PairRoute(ij)
                                  /\ result.value[k].RecommendedQuantity = h })
                      = Cardinality({ kl \in MovementPairs :
                                        PairRoute(kl) = PairRoute(ij) /\ Reported(kl, h) })

ReportedExact(ij, h) == h * 10 * PairMin(ij).d = PairMin(ij).n
ReportedRounded(ij, h) == h = RoundHalfEven(PairMin(ij).n, PairMin(ij).d * 10)

\* C7 as stated: for every pair of positions of one material with surplus
\* quantity s > median and shortage quantity d < 0, get_movement_recommendations
\* holds one recommendation from the surplus to the shortage position whose
\* Recommended Quantity is min(s - median, |d|), and none for any other pair.
C7_RecommendedIsMin ==
    Returned("get_movement_recommendations") => OnePerPair(ReportedExact)

\* C7 amended: the same, the Recommended Quantity being min(s - median, |d|)
\* rounded to two decimals.
C7_RecommendedIsRoundedMin ==
    Returned("get_movement_recommendations") => OnePerPair(ReportedRounded)

\* C7 witness: one recommendation of 20.00 units (surplus 50 over a median of
\* 30, shortage 30) while a short position of another material gets none.
C7_Witness ==
    /\ Returned("get_movement_recommendations")
    /\ Len(result.value) = 1
    /\ result.value[1].RecommendedQuantity = 2000
    /\ median_qty = RInt(30000)
    /\ \E i \in 1..Len(Rows) :
           Rows[i].Material # result.value[1].Material /\ Rows[i].CurrentQuantity < 0

\* C8: get_abundant_items(p) returns exactly the positions of quantity
\* strictly above the p-th percentile of the position quantities, each once,
\* in descending order of quantity; in particular nothing when the largest
\* quantity equals the percentile.
C8_AbundantStrictlyAbove ==
    (Built /\ result.op = "get_abundant_items" /\ Len(Rows) > 0
           /\ ValidPercentile(result.arg[1])) =>
        LET above == { i \in 1..Len(Rows) :
                         100 * Rows[i].CurrentQuantity > Percentile100(result.arg[1]) }
        IN  /\ result.exc = "none"
            /\ Len(result.value) = Cardinality(above)
            /\ \A i \in above : \E j \in 1..Len(result.value) : result.value[j] = Rows[i]
            /\ \A j \in 1..Len(result.value) :
                   \E i \in above : result.value[j] = Rows[i]
            /\ \A j \in 1..(Len(result.value) - 1) :
                   result.value[j].CurrentQuantity >= result.value[j + 1].CurrentQuantity
            /\ (\A i \in 1..Len(Rows) :
                    100 * Rows[i].CurrentQuantity <= Percentile100(result.arg[1]))
                   => result.value = << >>

\* C8 witness: a non-empty abundant list that leaves out a position whose
\* quantity equals the percentile.
C8_Witness ==
    /\ Returned("get_abundant_items")
    /\ Len(result.value) >= 2
    /\ \E i \in 1..Len(Rows) :
           100 * Rows[i].CurrentQuantity = Percentile100(result.arg[1])
C13_MissingColumnFailsAtLoad ==
    (source.columns # RequiredColumns) => ~Built

CountWhere(P(_)) == Cardinality({ i \in 1..Len(Rows) : P(Rows[i].CurrentQuantity) })

\* C15: on every built inventory get_dashboard_stats returns counts in which
\* negative_items is the number of positions of quantity < 0, positive_items
\* the number of quantity > 0, total_items the number of positions, so that
\* negative_items + positive_items <= total_items and the difference is
\* the number of positions of quantity 0.
C15_DashboardCounts ==
    (Built /\ result.op = "get_dashboard_stats") =>
        /\ result.exc = "none"
        /\ result.value.total_items = Len(Rows)
        /\ result.value.negative_items = CountWhere(LAMBDA q : q < 0)
        /\ result.value.positive_items = CountWhere(LAMBDA q : q > 0)
        /\ result.value.negative_items + result.value.positive_items
               <= result.value.total_items
        /\ result.value.total_items - result.value.negative_items
               - result.value.positive_items = CountWhere(LAMBDA q : q = 0)

MovementRank(r) == CASE r.Priority = "Critical" -> 3 [] r.Priority = "High" -> 2 [] OTHER -> 1
ShippingRank(r) == IF r.Priority = "High" THEN 2 ELSE 1

\* C16: get_movement_recommendations lists Critical recommendations first,
\* then High, then the rest, and within equal priority by descending
\* Estimated Value; get_shipping_recommendations lists High before the
\* others and within equal priority by descending Recommended Quantity.
C16_RecommendationOrder ==
    /\ Returned("get_movement_recommendations") =>
           \A i, j \in 1..Len(result.value) :
               i < j =>
                   /\ MovementRank(result.value[i]) >= MovementRank(result.value[j])
                   /\ MovementRank(result.value[i]) = MovementRank(result.value[j])
                          => result.value[i].EstimatedValue >= result.value[j].EstimatedValue
    /\ Returned("get_shipping_recommendations") =>
           \A i, j \in 1..Len(result.value) :
               i < j =>
                   /\ ShippingRank(result.value[i]) >= ShippingRank(result.value[j])
                   /\ ShippingRank(result.value[i]) = ShippingRank(result.value[j])
                          => result.value[i].RecommendedQuantity
                                 >= result.value[j].RecommendedQuantity

\* The positions get_inactive_stock(days, limit) is to choose from, for the
\* arguments of the last call.
InactiveCutoff == result.arg[3] - result.arg[1]
IsInactive(r) == r.LastActive = NA \/ r.LastActive[1] < InactiveCutoff
InactiveSet == { i \in 1..Len(Rows) : IsInactive(Rows[i]) }

\* C17: get_inactive_stock(days, limit) returns only positions whose
\* last-active date is unknown or earlier than today - days, the positions of
\* unknown date first and then the dated ones from oldest to newest, and the
\* result is the first `limit` of that order: no dated position is returned
\* while one of unknown date is left out.
C17_InactiveUnknownFirst ==
    Returned("get_inactive_stock") =>
        /\ \A j \in 1..Len(result.value) :
               IsPosition(result.value[j]) /\ IsInactive(result.value[j])
        /\ Len(result.value) = Min(result.arg[2], Cardinality(InactiveSet))
        /\ \A i, j \in 1..Len(result.value) :
               i < j =>
                   \/ result.value[i].LastActive = NA
                   \/ /\ result.value[j].LastActive # NA
                      /\ result.value[i].LastActive[1] <= result.value[j].LastActive[1]
        /\ (\E i \in InactiveSet :
                /\ Rows[i].LastActive = NA
                /\ \A j \in 1..Len(result.value) : result.value[j] # Rows[i])
               => \A j \in 1..Len(result.value) : result.value[j].LastActive = NA

\* C18: after load and build, a transaction of the source whose Plant is
\* missing is counted in a position of site 'Unknown', one whose Storage
\* Location is missing in a position of storage location 'N/A', and no
\* position carries the text 'nan' for a site or a location.
C18_MissingSiteSentinels ==
    Built =>
        /\ \A i \in 1..Len(source.rows) :
               LET row == source.rows[i]
               IN  /\ row.Plant = NaN =>
                          \E j \in 1..Len(Rows) :
                              /\ Rows[j].Site = "Unknown"
                              /\ Rows[j].Material = row.Material
                              /\ Rows[j].MaterialDescription = row.MaterialDescription
                   /\ row.StorageLocation = NaN =>
                          \E j \in 1..Len(Rows) :
                              /\ Rows[j].StorageLocation = "N/A"
                              /\ Rows[j].Material = row.Material
                              /\ Rows[j].MaterialDescription = row.MaterialDescription
        /\ \A j \in 1..Len(Rows) :
               Rows[j].Site # "nan" /\ Rows[j].StorageLocation # "nan"

(***************************************************************************)
(* The web layer: app.get_analyzer, the query routes and app.upload_file   *)
(*                                                                         *)
(* A file's content is a name: "v0", "v1", "v2" are tables the engine can  *)
(* be built from, "bad" is one InventoryAnalyzer raises on.  An engine is  *)
(* [id, src, content]: its identity, the path it was built from and the    *)
(* content it read.  The engine upload_file builds to test the file is     *)
(* dropped at once and gets no identity.                                   *)
(***************************************************************************)

Exists(path) == files[path] # Absent

\* allowed_file: the name has an extension and it is xlsx or xls.
allowed_file(filename) == filename \in UploadNames

InitApp ==
    /\ analyzer = NoEngine
    /\ EXCEL_FILE = << DefaultFile >>
    /\ files \in { f \in [Paths -> {Absent, "v0", "bad"}] :
                     \A q \in UploadPaths : f[q] = Absent }
    /\ nextId = 1
    /\ response = NoResponse
    /\ hist = NoUpload
    /\ source = [columns |-> RequiredColumns, rows |-> << >>]
    /\ df = << >>
    /\ df_columns = {}
    /\ pc = "new"
    /\ inventory_df = [columns |-> {}, rows |-> << >>]
    /\ median_qty = RZero
    /\ mean_qty = RZero
    /\ std_qty = StdZero
    /\ result = NoCall

\* The file get_analyzer settles on: EXCEL_FILE, or, when that does not
\* exist, any spreadsheet of the uploads folder (xlsx_files[-1] of
\* os.listdir, whose order is arbitrary).
Candidates ==
    IF ~Exists(EXCEL_FILE) /\ { q \in UploadPaths : Exists(q) } # {}
    THEN { q \in UploadPaths : Exists(q) }
    ELSE { EXCEL_FILE }

\* get_analyzer(): outcome is "engine" (an engine is returned), "none" (the
\* construction raised and None is returned) or "raise" (no engine: the
\* 'No Excel file found' exception).
get_analyzer(outcome) ==
    \E chosen \in Candidates :
        /\ EXCEL_FILE' = chosen
        /\ IF (analyzer = NoEngine \/ ~Exists(EXCEL_FILE)) /\ Exists(chosen)
           THEN IF files[chosen] = "bad"
                THEN /\ analyzer' = analyzer
                     /\ nextId' = nextId
                     /\ outcome = "none"
                ELSE /\ analyzer' = [id |-> nextId, src |-> chosen, content |-> files[chosen]]
                     /\ nextId' = nextId + 1
                     /\ outcome = "engine"
           ELSE /\ analyzer' = analyzer
                /\ nextId' = nextId
                /\ outcome = IF analyzer = NoEngine THEN "raise" ELSE "engine"

Outcomes == {"engine", "none", "raise"}

\* What a route answers: dashboard_stats tests for None (404), every other
\* query route calls a method of the returned value (AttributeError on None,
\* caught: 500); a raised exception is a 500 on all of them.
StatusOf(route, outcome) ==
    IF outcome = "engine" THEN 200
    ELSE IF route = "dashboard_stats" /\ outcome = "none" THEN 404
    ELSE 500

\* The 'error' text of the answer: the message get_analyzer raises with (and
\* dashboard_stats repeats for None), or str(e) of the AttributeError that
\* calling a method of None raises.
NoFileMessage == "No Excel file found. Please upload a file first."
NoneTypeMessage == "'NoneType' object has no attribute"
ErrorOf(route, outcome) ==
    IF outcome = "engine" THEN "none"
    ELSE IF outcome = "raise" \/ route = "dashboard_stats" THEN NoFileMessage
    ELSE NoneTypeMessage

Asked(h, eng) ==
    [h EXCEPT !.asked = TRUE, !.firstId = IF h.asked THEN h.firstId ELSE eng.id]

\* A query route (dashboard_stats, or any of the others, all shaped like
\* sites_summary).
QueryRequest ==
    \E route \in {"dashboard_stats", "sites_summary"}, outcome \in Outcomes :
        /\ nextId <= MaxEngines
        /\ get_analyzer(outcome)
        /\ response' = [route |-> route, status |-> StatusOf(route, outcome),
                        error |-> ErrorOf(route, outcome),
                        engine |-> IF outcome = "engine" THEN analyzer' ELSE NoEngine]
        /\ hist' = Asked(hist, IF outcome = "engine" THEN analyzer' ELSE NoEngine)
        /\ UNCHANGED <<files, engineVars>>

\* The dashboard page: calls get_analyzer and renders whatever it gives.
IndexRequest ==
    \E outcome \in Outcomes :
        /\ nextId <= MaxEngines
        /\ get_analyzer(outcome)
        /\ response' = [route |-> "index", status |-> 200, error |-> "none", engine |-> NoEngine]
        /\ UNCHANGED <<files, hist, engineVars>>
\* A variant of the reset in upload_file that keeps the cached engine.
AnalyzerKept(cached) == cached

\* upload_file: 'analyzer = None  # Reset analyzer to force reload'.
AnalyzerAfterUpload(cached) == NoEngine

\* upload_file turned down before anything is saved: no file part, an
\* empty file name, or a name that is not a spreadsheet's.
UploadRejected ==
    /\ response' = [route |-> "upload", status |-> 400,
                    error |-> "No file provided", engine |-> NoEngine]
    /\ UNCHANGED <<analyzer, EXCEL_FILE, files, nextId, hist, engineVars>>

\* upload_file with a spreadsheet name: the file is saved, made the active
\* one and the cached engine dropped; then a test engine is built from it
\* and, when that raises, the file is deleted again.  secure_filename leaves
\* these names as they are.
UploadRequest ==
    \E filename \in UploadNames, content \in GoodContents \cup {"bad"} :
        LET filepath == UploadPath(filename)
            saved == [upload |-> "ok", path |-> filepath, content |-> content,
                      activeBefore |-> EXCEL_FILE, activeContent |-> files[EXCEL_FILE],
                      idsBefore |-> nextId, asked |-> FALSE, firstId |-> 0]
        IN  /\ allowed_file(filename)
            /\ EXCEL_FILE' = filepath
            /\ analyzer' = AnalyzerAfterUpload(analyzer)
            /\ IF content = "bad"
               THEN /\ files' = [files EXCEPT ![filepath] = Absent]
                    /\ response' = [route |-> "upload", status |-> 400,
                                     error |-> "Failed to process file",
                                     engine |-> NoEngine]
                    /\ hist' = [saved EXCEPT !.upload = "failed"]
               ELSE /\ files' = [files EXCEPT ![filepath] = content]
                    /\ response' = [route |-> "upload", status |-> 200, error |-> "none", engine |-> NoEngine]
                    /\ hist' = saved
            /\ UNCHANGED <<nextId, engineVars>>

NextApp ==
    \/ QueryRequest
    \/ IndexRequest
    \/ UploadRejected
    \/ UploadRequest

SpecApp == InitApp /\ [][NextApp]_vars

(***************************************************************************)
(* Properties of the web layer                                             *)
(***************************************************************************)
IsQuery == response.route \in {"dashboard_stats", "sites_summary"}

\* C9: after an upload whose build fails, a query is either reported not
\* ready or answered by the engine of the file that was active before that
\* upload, never by an engine built from some other file.
C9_FailedUploadKeepsOrClears ==
    (hist.upload = "failed" /\ IsQuery /\ response.status = 200) =>
        /\ response.engine.src = hist.activeBefore
        /\ response.engine.content = hist.activeContent

\* C10: after an upload of file F succeeds, every query until the next
\* upload is answered, by an engine built after the upload from F as
\* uploaded, and by the same engine instance each time, the only one built
\* since the upload.
C10_UploadForcesRebuild ==
    (hist.upload = "ok" /\ IsQuery) =>
        /\ response.status = 200
        /\ response.engine.src = hist.path
        /\ response.engine.content = hist.content
        /\ response.engine.id >= hist.idsBefore
        /\ response.engine.id = hist.firstId
        /\ response.engine = analyzer
        /\ nextId = hist.idsBefore + 1

\* C10 witness: an engine was cached from an earlier file, a different file
\* was uploaded, and the query after it is answered by a new engine.
C10_Witness ==
    /\ hist.upload = "ok" /\ IsQuery
    /\ hist.idsBefore > 1
    /\ hist.activeBefore # hist.path
    /\ response.engine.id = hist.idsBefore

\* The last request was a query made while no engine was available.
NotReady == IsQuery /\ response.engine = NoEngine

\* C11: while the engine is unavailable every query route gives the same
\* answer: two queries in a row that both find no engine get the same status
\* and the same error.
C11_NotReadyUniform ==
    [][(NotReady /\ NotReady') =>
           /\ response'.status = response.status
           /\ response'.error = response.error]_vars
====
